---- MODULE Spec2Model ----
(***************************************************************************)
(* Maximum flow by depth-first augmenting paths                            *)
(* (src/Meshkov_Maxim/Lab3/main.cpp).                                      *)
(*                                                                         *)
(* Vertex objects are identified by their name (readGraph keeps one Vertex *)
(* per name); names are characters, modelled by their integer codes.  Edge *)
(* objects live in `heap`: an Edge pointer is an index of heap, nullptr is *)
(* 0.  Vertex::edges, a std::set ordered by EdgePtrComparator, is the      *)
(* sequence of its elements in iteration order.                            *)
(***************************************************************************)
EXTENDS Integers, Sequences, FiniteSets, TLC

\* ------------------------------------------------------------------ bounds
\* Vertex names of the inputs are 1..NumNames.
NumNames == 2
\* The capacities of the freely enumerated edge lists are 0..MaxCap.
MaxCap == 1
\* The freely enumerated edge lists have at most MaxEdges edges.
MaxEdges == 2

Names == 1..NumNames
\* The five-edge example of the specification has the vertices S, A, B, T;
\* names are only compared, so four labels give every relative order.
ClassicNames == 1..4
\* Its capacities are positive and not all equal.
ClassicCaps == 1..(MaxCap + 1)
Labels == Names \cup ClassicNames

nullptr == 0

VARIABLES
    pc,          \* position of main: "readGraph", "addReverseEdges",
                 \* "SEARCHING", "DONE", "terminated"
    sourceName,  \* the source label read from the input (0 before reading)
    targetName,  \* the target label read from the input
    input,       \* the edges read from the input: <<source, target, capacity>>
    heap,        \* the Edge objects, in order of allocation
    edges,       \* Vertex::edges of every vertex, in set order
    vertices,    \* Graph::vertices (the names that have a Vertex object)
    inPath,      \* Vertex::inPath of every vertex
    source,      \* Graph::source (nullptr until readGraph sets it)
    target,      \* Graph::target
    path,        \* the local `path` of findMaxFlow
    maxFlow,     \* the local `maxFlow` of findMaxFlow
    cancelled,   \* history: some augmentation went through a companion edge
    augmentations  \* history: the iterations of the loop that found a path

vars == <<pc, sourceName, targetName, input, heap, edges, vertices, inPath,
          source, target, path, maxFlow, cancelled, augmentations>>

\* ------------------------------------------------------------ data model
\* struct Edge with its default member initialisers.
Edge(s, t, c) ==
    [source |-> s, target |-> t, capacity |-> c, flow |-> 0,
     isReverseEdge |-> FALSE, reverseEdge |-> nullptr]

\* EdgePtrComparator::operator(): by source name, then by target name, then
\* by the addresses of the two objects.  addrLess stands for `a < b`, which
\* depends on where the allocator put the two objects.
\* Mutant: the targets are compared the other way round.
EdgePtrComparator_TargetDescending(a, b, addrLess) ==
    IF a.source # b.source THEN a.source < b.source
    ELSE IF a.target # b.target THEN a.target > b.target
    ELSE addrLess

EdgePtrComparator(a, b, addrLess) ==
    IF a.source # b.source THEN a.source < b.source
    ELSE IF a.target # b.target THEN a.target < b.target
    ELSE addrLess

InsertAt(s, i, x) == SubSeq(s, 1, i) \o <<x>> \o SubSeq(s, i + 1, Len(s))

\* std::set::insert of a freshly allocated edge e into the set whose elements
\* are, in order, s: the positions (number of elements before e) at which
\* the comparator can put e.  Among edges with the same endpoints the
\* position depends on the address the allocator returned, so every one of
\* them is possible.
InsertPositions(h, s, e) ==
    { i \in 0..Len(s) :
        \A j \in 1..Len(s) :
            IF j <= i
            THEN \E addrLess \in BOOLEAN : EdgePtrComparator(h[s[j]], e, addrLess)
            ELSE \E addrLess \in BOOLEAN : EdgePtrComparator(e, h[s[j]], addrLess) }

\* edgeSource->edges.insert(edge) for the edge just appended to the heap.
InsertEdge(h, E, p) ==
    { [E EXCEPT ![h[p].source] = InsertAt(@, i, p)] :
        i \in InsertPositions(h, E[h[p].source], h[p]) }

\* -------------------------------------------------------------- readGraph
\* The loop of readGraph over the first k input edges: every outcome
\* [heap, edges, vertices] the allocator's addresses allow.  `vertices` is
\* the key set of the local map of readGraph.
RECURSIVE readEdges(_, _)
readEdges(inp, k) ==
    IF k = 0
    THEN {[heap |-> <<>>, edges |-> [n \in Labels |-> <<>>], vertices |-> {}]}
    ELSE LET edge == Edge(inp[k][1], inp[k][2], inp[k][3])
         IN UNION { { [heap |-> Append(g.heap, edge),
                       edges |-> E,
                       vertices |-> g.vertices \cup {edge.source, edge.target}] :
                        E \in InsertEdge(Append(g.heap, edge), g.edges,
                                         Len(g.heap) + 1) } :
                    g \in readEdges(inp, k - 1) }

\* Mutant: the lookup never throws (operator[] in place of at).
VerticesAt_NoThrow(vs, name) == FALSE

\* vertices.at(name): std::out_of_range when no edge mentioned the name.
VerticesAtThrows(vs, name) == name \notin vs

\* -------------------------------------------------------- addReverseEdges
\* The successor of vertex v in graph.vertices (ordered by name), nullptr
\* at the end; FirstVertex is begin().
NextVertex(vs, v) ==
    IF \E w \in vs : w > v
    THEN CHOOSE w \in vs : w > v /\ \A x \in vs : x > v => w <= x
    ELSE nullptr

FirstVertex(vs) == NextVertex(vs, nullptr)

IndexOf(s, x) == CHOOSE i \in 1..Len(s) : s[i] = x

\* Mutant: the companion starts with the capacity of its edge, as if the
\* edge were undirected.
ReverseOf_FullCapacity(h, p) ==
    [source |-> h[p].target, target |-> h[p].source, capacity |-> h[p].capacity,
     flow |-> 0, isReverseEdge |-> TRUE, reverseEdge |-> p]

\* Mutant: lines 98-99 copy the endpoints without swapping them.
ReverseOf_SameDirection(h, p) ==
    [source |-> h[p].source, target |-> h[p].target, capacity |-> 0, flow |-> 0,
     isReverseEdge |-> TRUE, reverseEdge |-> p]

\* The companion edge that lines 95-99 build for the edge at pointer p.
ReverseOf(h, p) ==
    [source |-> h[p].target, target |-> h[p].source, capacity |-> 0, flow |-> 0,
     isReverseEdge |-> TRUE, reverseEdge |-> p]

\* Mutant: line 92 skips the companions instead of the edges with a partner.
HasReverse_IsCompanion(e) == e.isReverseEdge

\* Line 92: the edge already has a partner and is skipped.
HasReverse(e) == e.reverseEdge # nullptr

\* The two nested loops of addReverseEdges, resumed at vertex v after the
\* element `last` of v's set (nullptr: at the beginning of the set).  The
\* inner loop runs over the live set, so an edge inserted behind the
\* iterator (the companion of a self-loop) is visited as well.  The result
\* is the set of outcomes [heap, edges] the allocator's addresses allow.
RECURSIVE addReverseEdgesFrom(_, _, _, _, _)
\* Mutant: an edge whose opposite direction is an unpaired input edge is
\* linked to that edge, and no companion is allocated for it.
addReverseEdgesFrom_PairsOpposite(h, E, vs, v, last) ==
    IF v = nullptr THEN {[heap |-> h, edges |-> E]}
    ELSE LET s == E[v]
             i == IF last = nullptr THEN 1 ELSE IndexOf(s, last) + 1
         IN IF i > Len(s)
            THEN addReverseEdgesFrom(h, E, vs, NextVertex(vs, v), nullptr)
            ELSE LET edge == s[i]
                     opposite == {q \in DOMAIN h : /\ q # edge
                                                   /\ h[q].reverseEdge = nullptr
                                                   /\ h[q].source = h[edge].target
                                                   /\ h[q].target = h[edge].source}
                 IN IF HasReverse(h[edge])
                    THEN addReverseEdgesFrom(h, E, vs, v, edge)
                    ELSE IF opposite # {}
                    THEN LET q == CHOOSE r \in opposite : \A r2 \in opposite : r <= r2
                         IN addReverseEdgesFrom([h EXCEPT ![edge].reverseEdge = q,
                                                          ![q].reverseEdge = edge],
                                                E, vs, v, edge)
                    ELSE LET reverseEdge == Len(h) + 1
                             h2 == Append([h EXCEPT ![edge].reverseEdge = reverseEdge],
                                          ReverseOf(h, edge))
                         IN UNION { addReverseEdgesFrom(h2, E2, vs, v, edge) :
                                      E2 \in InsertEdge(h2, E, reverseEdge) }

addReverseEdgesFrom(h, E, vs, v, last) ==
    IF v = nullptr THEN {[heap |-> h, edges |-> E]}
    ELSE LET s == E[v]
             i == IF last = nullptr THEN 1 ELSE IndexOf(s, last) + 1
         IN IF i > Len(s)
            THEN addReverseEdgesFrom(h, E, vs, NextVertex(vs, v), nullptr)
            ELSE LET edge == s[i]
                 IN IF HasReverse(h[edge])
                    THEN addReverseEdgesFrom(h, E, vs, v, edge)
                    ELSE LET reverseEdge == Len(h) + 1
                             h2 == Append([h EXCEPT ![edge].reverseEdge = reverseEdge],
                                          ReverseOf(h, edge))
                         IN UNION { addReverseEdgesFrom(h2, E2, vs, v, edge) :
                                      E2 \in InsertEdge(h2, E, reverseEdge) }

addReverseEdges(h, E, vs) == addReverseEdgesFrom(h, E, vs, FirstVertex(vs), nullptr)

\* --------------------------------------------------------------- findPath
\* findPath(source, target, path, clearPath) on the graph (h, E) with the
\* markers inP; the result is [found, path, inPath]: the return value, the
\* path and the markers as the call leaves them.  findPathLoop is the for
\* loop with the reverse iterator at position i of source->edges (0: rend).
RECURSIVE findPath(_, _, _, _, _, _, _)
RECURSIVE findPathLoop(_, _, _, _, _, _, _)
RECURSIVE findPathReturned(_, _, _, _, _, _, _)
\* Mutant: the top-level call does not mark the source as on the path.
findPath_NoSourceMark(h, E, inP, src, tgt, p, clearPath) ==
    IF clearPath
    THEN findPathLoop(h, E, inP, src, tgt, <<>>, Len(E[src]))
    ELSE findPathLoop(h, E, inP, src, tgt, p, Len(E[src]))

findPath(h, E, inP, src, tgt, p, clearPath) ==
    IF clearPath
    THEN findPathLoop(h, E, [inP EXCEPT ![src] = TRUE], src, tgt, <<>>, Len(E[src]))
    ELSE findPathLoop(h, E, inP, src, tgt, p, Len(E[src]))

\* Mutant: the search never goes through a companion edge.
Tried_NoCompanions(h, inP, edge) ==
    ~inP[h[edge].target] /\ h[edge].capacity > 0 /\ ~h[edge].isReverseEdge

\* Lines 50..54: whether the edge is tried.
Tried(h, inP, edge) == ~inP[h[edge].target] /\ h[edge].capacity > 0

\* Mutant: an edge that is not tried ends the loop (break for continue).
findPathLoop_StopAtUntried(h, E, inP, src, tgt, p, i) ==
    IF i = 0
    THEN [found |-> FALSE, path |-> p, inPath |-> [inP EXCEPT ![src] = FALSE]]
    ELSE LET edge == E[src][i]
             t == h[edge].target
         IN IF Tried(h, inP, edge)
            THEN IF t = tgt
                 THEN [found |-> TRUE, path |-> Append(p, edge), inPath |-> inP]
                 ELSE findPathReturned(h, E, src, tgt, i, t,
                          findPath(h, E, [inP EXCEPT ![t] = TRUE], t, tgt,
                                   Append(p, edge), FALSE))
            ELSE [found |-> FALSE, path |-> p, inPath |-> [inP EXCEPT ![src] = FALSE]]

findPathLoop(h, E, inP, src, tgt, p, i) ==
    IF i = 0
    THEN [found |-> FALSE, path |-> p, inPath |-> [inP EXCEPT ![src] = FALSE]]
    ELSE LET edge == E[src][i]
             t == h[edge].target
         IN IF Tried(h, inP, edge)
            THEN IF t = tgt
                 THEN [found |-> TRUE, path |-> Append(p, edge), inPath |-> inP]
                 ELSE findPathReturned(h, E, src, tgt, i, t,
                          findPath(h, E, [inP EXCEPT ![t] = TRUE], t, tgt,
                                   Append(p, edge), FALSE))
            ELSE findPathLoop(h, E, inP, src, tgt, p, i - 1)

\* Mutant: path.pop_back() of line 61 is missing.
findPathReturned_NoPop(h, E, src, tgt, i, t, r) ==
    IF r.found
    THEN [found |-> TRUE, path |-> r.path,
          inPath |-> [r.inPath EXCEPT ![t] = FALSE, ![src] = FALSE]]
    ELSE findPathLoop(h, E, [r.inPath EXCEPT ![t] = FALSE], src, tgt, r.path, i - 1)

\* Mutant: a failed recursive call ends the search of the caller too.
findPathReturned_NoBacktrack(h, E, src, tgt, i, t, r) ==
    IF r.found
    THEN [found |-> TRUE, path |-> r.path,
          inPath |-> [r.inPath EXCEPT ![t] = FALSE, ![src] = FALSE]]
    ELSE [found |-> FALSE, path |-> SubSeq(r.path, 1, Len(r.path) - 1),
          inPath |-> [r.inPath EXCEPT ![t] = FALSE, ![src] = FALSE]]

\* Lines 56..61: the recursive call on t returned r.
findPathReturned(h, E, src, tgt, i, t, r) ==
    IF r.found
    THEN [found |-> TRUE, path |-> r.path,
          inPath |-> [r.inPath EXCEPT ![t] = FALSE, ![src] = FALSE]]
    ELSE findPathLoop(h, E, [r.inPath EXCEPT ![t] = FALSE], src, tgt,
                      SubSeq(r.path, 1, Len(r.path) - 1), i - 1)

\* ------------------------------------------- findMinCapacity, changeFlow
\* Mutant: std::max for std::min.
Min2_Max(a, b) == IF b > a THEN b ELSE a

Min2(a, b) == IF b < a THEN b ELSE a

RECURSIVE findMinCapacityFrom(_, _, _, _)
findMinCapacityFrom(h, p, i, minCapacity) ==
    IF i > Len(p) THEN minCapacity
    ELSE findMinCapacityFrom(h, p, i + 1, Min2(minCapacity, h[p[i]].capacity))

\* Mutant: minCapacity starts at 1 instead of path.front()->capacity.
findMinCapacity_Unit(h, p) == findMinCapacityFrom(h, p, 1, 1)

\* Defined for a non-empty path (the assertion of line 69).
findMinCapacity(h, p) == findMinCapacityFrom(h, p, 1, h[p[1]].capacity)

\* Mutant: line 83 is missing, the flow of the partner is left alone.
changeEdge_NoReverseFlow(h, edge, flowChange) ==
    LET h1 == [h EXCEPT ![edge].flow = @ + flowChange,
                        ![edge].capacity = @ - flowChange]
    IN [h1 EXCEPT ![h1[edge].reverseEdge].capacity = @ + flowChange]

\* Mutant: line 79 assigns the flow instead of adding to it.
changeEdge_AssignFlow(h, edge, flowChange) ==
    LET h1 == [h EXCEPT ![edge].flow = flowChange,
                        ![edge].capacity = @ - flowChange]
    IN [h1 EXCEPT ![h1[edge].reverseEdge].flow = @ - flowChange,
                  ![h1[edge].reverseEdge].capacity = @ + flowChange]

\* Mutant: the partner is looked up by its endpoints (the first edge going
\* the opposite way) instead of through edge->reverseEdge.
changeEdge_PartnerByEndpoints(h, edge, flowChange) ==
    LET h1 == [h EXCEPT ![edge].flow = @ + flowChange,
                        ![edge].capacity = @ - flowChange]
        opposite == {q \in DOMAIN h : /\ h[q].source = h[edge].target
                                      /\ h[q].target = h[edge].source}
        partner == CHOOSE q \in opposite : \A r \in opposite : q <= r
    IN [h1 EXCEPT ![partner].flow = @ - flowChange,
                  ![partner].capacity = @ + flowChange]

\* Mutant: line 81 is missing, the capacity of the edge is not reduced.
changeEdge_KeepsCapacity(h, edge, flowChange) ==
    LET h1 == [h EXCEPT ![edge].flow = @ + flowChange]
    IN [h1 EXCEPT ![h1[edge].reverseEdge].flow = @ - flowChange,
                  ![h1[edge].reverseEdge].capacity = @ + flowChange]

\* The body of the loop of changeFlow for one edge of the path.
changeEdge(h, edge, flowChange) ==
    LET h1 == [h EXCEPT ![edge].flow = @ + flowChange,
                        ![edge].capacity = @ - flowChange]
    IN [h1 EXCEPT ![h1[edge].reverseEdge].flow = @ - flowChange,
                  ![h1[edge].reverseEdge].capacity = @ + flowChange]

RECURSIVE changeFlowFrom(_, _, _, _)
changeFlowFrom(h, p, i, flowChange) ==
    IF i > Len(p) THEN h
    ELSE changeFlowFrom(changeEdge(h, p[i], flowChange), p, i + 1, flowChange)

changeFlow(h, p, flowChange) == changeFlowFrom(h, p, 1, flowChange)

\* The assertions of lines 77 and 80, the latter evaluated for every edge
\* in turn while the loop runs.
RECURSIVE changeFlowAsserts(_, _, _, _)
changeFlowAsserts(h, p, i, flowChange) ==
    IF i > Len(p) THEN flowChange >= 0
    ELSE /\ h[p[i]].capacity >= flowChange
         /\ changeFlowAsserts(changeEdge(h, p[i], flowChange), p, i + 1, flowChange)

\* The loop of findMaxFlow (lines 145-165) run to its end on the graph
\* (h, E): the value findMaxFlow returns, -1 when an assertion aborts it.
RECURSIVE findMaxFlowLoop(_, _, _, _, _, _, _)
findMaxFlowLoop(h, E, inP, src, tgt, p, flowValue) ==
    LET r == findPath(h, E, inP, src, tgt, p, TRUE)
    IN IF ~r.found THEN flowValue
       ELSE IF r.path = <<>>
               \/ ~changeFlowAsserts(h, r.path, 1, findMinCapacity(h, r.path))
       THEN -1
       ELSE findMaxFlowLoop(changeFlow(h, r.path, findMinCapacity(h, r.path)), E,
                            r.inPath, src, tgt, r.path,
                            flowValue + findMinCapacity(h, r.path))

\* findMaxFlow on a graph as readGraph returns it: every value it can
\* return, one for each outcome of the allocations in addReverseEdges.
findMaxFlow(h, E, vs, inP, src, tgt) ==
    { findMaxFlowLoop(g.heap, g.edges, inP, src, tgt, <<>>, 0) :
        g \in addReverseEdges(h, E, vs) }

\* ----------------------------------------------------------------- inputs
\* What std::cin can deliver: a source label, a target label and a list of
\* edges <<source, target, capacity>>.
EdgeChoices == Names \X Names \X (0..MaxCap)

\* The order of the input lines decides only the order in which the Edge
\* objects are allocated, so the lists are taken in non-decreasing order.
EdgeLeq(d, e) ==
    \/ d[1] < e[1]
    \/ d[1] = e[1] /\ d[2] < e[2]
    \/ d[1] = e[1] /\ d[2] = e[2] /\ d[3] <= e[3]

RECURSIVE EdgeLists(_)
EdgeLists(k) ==
    IF k = 0 THEN {<<>>}
    ELSE LET shorter == EdgeLists(k - 1)
         IN shorter \cup
            UNION { { Append(l, e) : e \in {x \in EdgeChoices :
                                              l = <<>> \/ EdgeLeq(l[Len(l)], x)} } :
                    l \in {x \in shorter : Len(x) = k - 1} }

\* Every edge list of at most MaxEdges edges, with every choice of the two
\* labels: self-loops, parallel edges, edges in both directions, a source
\* equal to the target, labels that no edge mentions.
SmallInputs ==
    { [sourceName |-> s, targetName |-> t, input |-> l] :
        s \in Names, t \in Names, l \in EdgeLists(MaxEdges) }

\* The example S->A, S->B, A->B, A->T, B->T of the specification, with
\* every assignment of distinct labels to S, A, B, T (the labels decide the
\* order of the search) and every choice of positive capacities.
ClassicInputs ==
    { [sourceName |-> r[1], targetName |-> r[4],
       input |-> << <<r[1], r[2], c[1]>>, <<r[1], r[3], c[2]>>, <<r[2], r[3], c[3]>>,
                    <<r[2], r[4], c[4]>>, <<r[3], r[4], c[5]>> >>] :
        r \in {f \in [1..4 -> ClassicNames] : \A i, j \in 1..4 : f[i] = f[j] => i = j},
        c \in [1..5 -> ClassicCaps] }

Inputs == SmallInputs \cup ClassicInputs

\* ---------------------------------------------------------------- actions
Init ==
    /\ pc = "readGraph"
    /\ sourceName = 0
    /\ targetName = 0
    /\ input = <<>>
    /\ heap = <<>>
    /\ edges = [n \in Labels |-> <<>>]
    /\ vertices = {}
    /\ inPath = [n \in Labels |-> FALSE]
    /\ source = nullptr
    /\ target = nullptr
    /\ path = <<>>
    /\ maxFlow = 0
    /\ cancelled = FALSE
    /\ augmentations = 0

\* main calls readGraph.  vertices.at throws std::out_of_range for a label
\* that no edge mentioned; nothing catches it and the program terminates.
ReadGraph ==
    /\ pc = "readGraph"
    /\ \E in \in Inputs : \E g \in readEdges(in.input, Len(in.input)) :
        /\ sourceName' = in.sourceName
        /\ targetName' = in.targetName
        /\ input' = in.input
        /\ heap' = g.heap
        /\ edges' = g.edges
        /\ IF VerticesAtThrows(g.vertices, in.sourceName)
           THEN /\ pc' = "terminated"
                /\ UNCHANGED <<source, target, vertices>>
           ELSE IF VerticesAtThrows(g.vertices, in.targetName)
           THEN /\ pc' = "terminated"
                /\ source' = in.sourceName
                /\ UNCHANGED <<target, vertices>>
           ELSE /\ pc' = "addReverseEdges"
                /\ source' = in.sourceName
                /\ target' = in.targetName
                /\ vertices' = g.vertices
    /\ UNCHANGED <<inPath, path, maxFlow, cancelled, augmentations>>

\* findMaxFlow up to its loop: addReverseEdges, maxFlow = 0, an empty path.
AddReverseEdges ==
    /\ pc = "addReverseEdges"
    /\ \E g \in addReverseEdges(heap, edges, vertices) :
        /\ heap' = g.heap
        /\ edges' = g.edges
    /\ maxFlow' = 0
    /\ path' = <<>>
    /\ pc' = "SEARCHING"
    /\ UNCHANGED <<sourceName, targetName, input, vertices, inPath, source, target,
                   cancelled, augmentations>>

\* The call of findPath in the loop condition of findMaxFlow.
Search == findPath(heap, edges, inPath, source, target, path, TRUE)

\* One iteration of the loop: findPath returned true; findMinCapacity,
\* changeFlow, maxFlow += minCapacity.  A failing assertion aborts.
SearchFound ==
    /\ pc = "SEARCHING"
    /\ Search.found
    /\ LET r == Search
       IN /\ path' = r.path
          /\ inPath' = r.inPath
          /\ IF r.path # <<>>
                /\ changeFlowAsserts(heap, r.path, 1, findMinCapacity(heap, r.path))
             THEN /\ heap' = changeFlow(heap, r.path, findMinCapacity(heap, r.path))
                  /\ maxFlow' = maxFlow + findMinCapacity(heap, r.path)
                  /\ augmentations' = augmentations + 1
                  /\ cancelled' = (cancelled \/ \E i \in 1..Len(r.path) :
                                                   heap[r.path[i]].isReverseEdge)
                  /\ pc' = "SEARCHING"
             ELSE /\ pc' = "aborted"
                  /\ UNCHANGED <<heap, maxFlow, cancelled, augmentations>>
    /\ UNCHANGED <<sourceName, targetName, input, edges, vertices, source, target>>

\* findPath returned false: findMaxFlow returns maxFlow and main prints it
\* with the flow of every edge that is not a companion.
SearchNotFound ==
    /\ pc = "SEARCHING"
    /\ ~Search.found
    /\ path' = Search.path
    /\ inPath' = Search.inPath
    /\ pc' = "DONE"
    /\ UNCHANGED <<sourceName, targetName, input, heap, edges, vertices, source,
                   target, maxFlow, cancelled, augmentations>>

Next == ReadGraph \/ AddReverseEdges \/ SearchFound \/ SearchNotFound

Spec == Init /\ [][Next]_vars

\* main is one sequential thread that runs until it returns or is
\* terminated.  Advance is what every step of Next does to the position
\* of main and to the count of iterations: the position moves on, or the
\* loop of findMaxFlow has run one more iteration.  It can be taken exactly
\* where Next can, and the thread, being alone, takes it.
Running == pc \in {"readGraph", "addReverseEdges", "SEARCHING"}
Advance ==
    /\ Running
    /\ pc' \in {"addReverseEdges", "SEARCHING", "DONE", "terminated", "aborted"}
    /\ augmentations' \in {augmentations, augmentations + 1}

FairSpec == Spec /\ WF_<<pc, augmentations>>(Advance)

\* ====================================================================
\* Properties
\* ====================================================================
RECURSIVE Sum(_, _)
Sum(f, S) ==
    IF S = {} THEN 0
    ELSE LET x == CHOOSE y \in S : TRUE IN f[x] + Sum(f, S \ {x})

\* addReverseEdges has returned.
Built == pc \in {"SEARCHING", "DONE", "aborted"}
\* addReverseEdges has just returned: no search has run yet.
JustBuilt == pc = "SEARCHING" /\ path = <<>>

\* The edges of the input: readGraph allocates them first, in input order.
Originals == {p \in DOMAIN heap : ~heap[p].isReverseEdge}
InputCapacity(p) == input[p][3]
Flow == [p \in DOMAIN heap |-> heap[p].flow]
FlowInto(v) == Sum(Flow, {p \in Originals : heap[p].target = v})
FlowOutOf(v) == Sum(Flow, {p \in Originals : heap[p].source = v})

\* The capacity of the cut (S, V \ S) of the input graph, and the least
\* capacity of a cut that separates the source label from the target label.
CutCapacity(S) ==
    Sum([k \in DOMAIN input |-> input[k][3]],
        {k \in DOMAIN input : input[k][1] \in S /\ input[k][2] \notin S})
Cuts == {S \in SUBSET vertices : sourceName \in S /\ targetName \notin S}
MinCut ==
    CHOOSE m \in {CutCapacity(S) : S \in Cuts} : \A S \in Cuts : m <= CutCapacity(S)

\* C1: when the driver is DONE on an input with source # target, the value
\* it returns is the maximum flow of the input graph, i.e. the capacity of
\* a minimum cut between the source and the target.
C1_MaxFlowIsMinCut ==
    (pc = "DONE" /\ sourceName # targetName) => maxFlow = MinCut

\* The five-edge example ended after an augmentation that cancelled flow
\* through a companion edge.
C1_Witness ==
    /\ pc = "DONE"
    /\ Len(input) = 5
    /\ cancelled
    /\ maxFlow = MinCut
    /\ maxFlow >= 2

\* C2: once addReverseEdges has run, the flows of an edge and its partner
\* are opposite and their capacities add up to the input capacity of the
\* original edge of the pair.
C2_PairInvariant ==
    Built =>
        \A p \in DOMAIN heap :
            LET q == heap[p].reverseEdge
                original == IF heap[p].isReverseEdge THEN q ELSE p
            IN /\ q \in DOMAIN heap
               /\ heap[p].flow = -heap[q].flow
               /\ heap[p].capacity + heap[q].capacity = InputCapacity(original)

\* An augmentation has changed a pair.
C2_Witness ==
    /\ pc = "SEARCHING"
    /\ \E p \in Originals : heap[p].flow > 0 /\ heap[p].capacity > 0

\* C3: the flow of every input edge stays between 0 and its input capacity.
C3_FlowWithinCapacity ==
    \A p \in Originals : 0 <= heap[p].flow /\ heap[p].flow <= InputCapacity(p)

\* The driver is DONE with one input edge saturated at a capacity of 2 or
\* more and another carrying less than its capacity.
C3_Witness ==
    /\ pc = "DONE"
    /\ \E p \in Originals : heap[p].flow = InputCapacity(p) /\ heap[p].flow >= 2
    /\ \E p \in Originals : 0 < heap[p].flow /\ heap[p].flow < InputCapacity(p)

\* C4: at every vertex other than the source and the target the flow that
\* enters on input edges equals the flow that leaves on input edges.
C4_Conservation ==
    \A v \in vertices \ {source, target} : FlowInto(v) = FlowOutOf(v)

\* The driver is DONE with flow passing through an inner vertex, after an
\* augmentation that cancelled flow.
C4_Witness ==
    /\ pc = "DONE"
    /\ cancelled
    /\ \E v \in vertices \ {source, target} : FlowInto(v) > 0

\* C5: when the driver is DONE (source # target) the flow leaving the
\* source, the flow entering the target and the returned value are equal,
\* and the input edges that enter the source or leave the target carry no
\* flow.
C5_BoundaryFlow ==
    (pc = "DONE" /\ sourceName # targetName) =>
        /\ FlowOutOf(source) = maxFlow
        /\ FlowInto(target) = maxFlow
        /\ \A p \in Originals :
              (heap[p].target = source \/ heap[p].source = target) => heap[p].flow = 0

\* The driver is DONE with a positive flow on an input that has an edge
\* of positive capacity from the target back to the source.
C5_Witness ==
    /\ pc = "DONE"
    /\ sourceName # targetName
    /\ maxFlow > 0
    /\ \E p \in Originals :
          heap[p].target = source /\ heap[p].source = target /\ InputCapacity(p) > 0

\* The least capacity, in the heap h, of the edges of the path p.
PathMin(h, p) ==
    CHOOSE m \in {h[p[i]].capacity : i \in 1..Len(p)} :
        \A i \in 1..Len(p) : m <= h[p[i]].capacity

\* C6: maxFlow never decreases, and an iteration that found a path adds to
\* it exactly the least capacity the edges of that path had before the
\* update, which is at least 1.
C6_Monotone ==
    [][/\ maxFlow' >= maxFlow
       /\ (pc = "SEARCHING" /\ pc' = "SEARCHING") =>
             /\ path' # <<>>
             /\ PathMin(heap, path') >= 1
             /\ findMinCapacity(heap, path') = PathMin(heap, path')
             /\ maxFlow' = maxFlow + PathMin(heap, path')]_vars

\* An iteration has pushed a bottleneck smaller than the capacity of
\* another edge of its path.
C6_Witness ==
    /\ pc = "SEARCHING"
    /\ Len(path) >= 2
    /\ \E i \in 1..Len(path) : heap[path[i]].capacity > 0
    /\ \E i \in 1..Len(path) : heap[path[i]].capacity = 0

\* The labels that occur as an endpoint of some input edge.
Endpoints ==
    {input[k][1] : k \in DOMAIN input} \cup {input[k][2] : k \in DOMAIN input}

\* C7: an input whose source label equals its target label is rejected: the
\* program ends in an error and never builds companions or searches.
C7_RejectsEqualLabels ==
    (pc # "readGraph" /\ sourceName = targetName) => pc = "terminated"

\* C8: readGraph fails exactly when the source or the target label is no
\* endpoint of an input edge; the failure comes before addReverseEdges and
\* any search, and nothing follows it; otherwise the graph is built with
\* the two labels as its source and target.
C8_NoSuchVertex ==
    pc # "readGraph" =>
        /\ pc = "terminated" <=>
              (sourceName \notin Endpoints \/ targetName \notin Endpoints)
        /\ pc = "terminated" =>
              /\ \A p \in DOMAIN heap :
                    /\ ~heap[p].isReverseEdge
                    /\ heap[p].reverseEdge = nullptr
                    /\ heap[p].flow = 0
              /\ \A n \in Labels : ~inPath[n]
              /\ path = <<>>
              /\ maxFlow = 0
              /\ ~ENABLED Next
        /\ pc # "terminated" =>
              /\ source = sourceName
              /\ target = targetName
              /\ vertices = Endpoints

\* readGraph failed on an input that has edges.
C8_Witness ==
    /\ pc = "terminated"
    /\ input # <<>>
    /\ sourceName \in Endpoints
    /\ targetName \notin Endpoints

Elements(s) == {s[i] : i \in 1..Len(s)}

\* C9: once addReverseEdges has returned, every edge has exactly one
\* partner, the two refer to each other, the partner runs from the edge's
\* target to its source and is stored once in the set of the edge's
\* target; the companions are the edges allocated after the input edges,
\* they are marked, and they leave addReverseEdges with capacity 0, flow 0.
C9_ReversePairs ==
    Built =>
        \A p \in DOMAIN heap :
            LET q == heap[p].reverseEdge
            IN /\ q \in DOMAIN heap
               /\ q # p
               /\ heap[q].reverseEdge = p
               /\ {r \in DOMAIN heap : heap[r].reverseEdge = p} = {q}
               /\ heap[q].source = heap[p].target
               /\ heap[q].target = heap[p].source
               /\ Cardinality({i \in 1..Len(edges[heap[p].target]) :
                                 edges[heap[p].target][i] = q}) = 1
               /\ \A n \in Labels \ {heap[p].target} : q \notin Elements(edges[n])
               /\ heap[p].isReverseEdge <=> p > Len(input)
               /\ heap[p].isReverseEdge # heap[q].isReverseEdge
               /\ (JustBuilt /\ heap[p].isReverseEdge) =>
                     heap[p].capacity = 0 /\ heap[p].flow = 0

\* addReverseEdges has just returned on an input with edges in both
\* directions between two vertices.
C9_Witness ==
    /\ JustBuilt
    /\ \E i, j \in DOMAIN input :
          /\ input[i][1] # input[i][2]
          /\ input[i][1] = input[j][2]
          /\ input[i][2] = input[j][1]

\* C10: a second run of addReverseEdges on a graph it has already processed
\* allocates nothing and changes nothing.
C10_Idempotent ==
    Built => addReverseEdges(heap, edges, vertices) = {[heap |-> heap, edges |-> edges]}

\* addReverseEdges has just returned on an input with a self-loop.
C10_Witness ==
    /\ JustBuilt
    /\ Len(heap) > Len(input)
    /\ \E i \in DOMAIN input : input[i][1] = input[i][2]

\* The values the solver can return on a second, fresh copy of the input:
\* one for each outcome of the allocations in readGraph and addReverseEdges.
FreshCopyFlows ==
    UNION { findMaxFlow(g.heap, g.edges, g.vertices, [n \in Labels |-> FALSE],
                        sourceName, targetName) :
              g \in readEdges(input, Len(input)) }

\* C11: whatever order the addresses give to the edges with equal
\* endpoints, in readGraph and in addReverseEdges, every run of the solver
\* on the graph just read returns the value that every run on a fresh copy
\* of the same input returns.
C11_SameTotalFlow ==
    pc = "addReverseEdges" =>
        \A f1 \in findMaxFlow(heap, edges, vertices, inPath, source, target) :
            \A f2 \in FreshCopyFlows : f1 = f2

\* The graph just read has an input edge u->v and an input edge v->u, so
\* that addReverseEdges has outcomes that order the edges differently, and
\* its flow is positive.
C11_Witness ==
    /\ pc = "addReverseEdges"
    /\ \E b1, b2 \in addReverseEdges(heap, edges, vertices) :
          \E v \in vertices : b1.edges[v] # b2.edges[v]
    /\ \E i, j \in DOMAIN input :
          /\ input[i][1] # input[i][2]
          /\ input[i][1] = input[j][2]
          /\ input[i][2] = input[j][1]
    /\ \E f \in FreshCopyFlows : f >= 1

\* The vertices a sequence of edges visits after the vertex src.
Visited(h, src, p) == [i \in 0..Len(p) |-> IF i = 0 THEN src ELSE h[p[i]].target]

\* p is a simple path from src to tgt along edges of positive capacity.
AugmentingPath(h, src, tgt, p) ==
    /\ p # <<>>
    /\ h[p[1]].source = src
    /\ h[p[Len(p)]].target = tgt
    /\ \A i \in 1..(Len(p) - 1) : h[p[i]].target = h[p[i + 1]].source
    /\ \A i \in 1..Len(p) : h[p[i]].capacity > 0
    /\ \A i, j \in 0..Len(p) : i # j => Visited(h, src, p)[i] # Visited(h, src, p)[j]

\* C12: when the source and the target differ and the top-level findPath
\* reports a path, the path is not empty, starts at the source, ends at the
\* target, is consecutive, has only edges whose capacity was positive when
\* the search ran, and visits no vertex twice.
C12_PathWellFormed ==
    [][(pc = "SEARCHING" /\ pc' \in {"SEARCHING", "aborted"} /\ source # target)
          => AugmentingPath(heap, source, target, path')]_vars

\* A search has returned a path of three edges, one of them a companion.
C12_Witness ==
    /\ pc = "SEARCHING"
    /\ source # target
    /\ Len(path) >= 3
    /\ \E i \in 1..Len(path) : heap[path[i]].isReverseEdge
    /\ maxFlow >= 2

\* The vertices reachable from the set S along edges of positive capacity.
RECURSIVE ReachableFrom(_, _)
ReachableFrom(h, S) ==
    LET N == S \cup {h[p].target : p \in {q \in DOMAIN h : /\ h[q].source \in S
                                                          /\ h[q].capacity > 0}}
    IN IF N = S THEN S ELSE ReachableFrom(h, N)

Reachable(h, src, tgt) == tgt \in ReachableFrom(h, {src})

\* C13: with source # target, the top-level findPath reports no path, and
\* the driver moves to DONE, exactly when the target is not reachable from
\* the source along edges of positive capacity; when that is so on the
\* graph just built, the driver is DONE at once with flow 0 on every edge.
C13_Complete ==
    [][(pc = "SEARCHING" /\ source # target) =>
          /\ (pc' = "DONE") <=> ~Reachable(heap, source, target)
          /\ (JustBuilt /\ ~Reachable(heap, source, target)) =>
                /\ pc' = "DONE"
                /\ maxFlow' = 0
                /\ \A p \in DOMAIN heap' : heap'[p].flow = 0]_vars

\* A search failed after at least one augmentation, from a source that
\* still has an edge of positive capacity to another vertex.
C13_Witness ==
    /\ pc = "DONE"
    /\ source # target
    /\ maxFlow >= 1
    /\ \E p \in DOMAIN heap : /\ heap[p].source = source
                              /\ heap[p].target # source
                              /\ heap[p].capacity > 0

\* C14: on inputs with capacities >= 0 no assertion of findMinCapacity or
\* changeFlow fails (the path is never empty, the amount never negative,
\* every edge of the path has at least the amount when it is updated), and
\* no edge has a negative capacity.
C14_AssertionsHold ==
    /\ pc # "aborted"
    /\ \A p \in DOMAIN heap : heap[p].capacity >= 0

\* changeFlow has just run on a path of several edges and took from one
\* of them all the capacity it had, after an earlier augmentation.
C14_Witness ==
    /\ pc = "SEARCHING"
    /\ Len(path) >= 2
    /\ \E i \in 1..Len(path) : heap[path[i]].capacity = 0 /\ heap[path[i]].flow >= 1
    /\ \E p \in DOMAIN heap : p \notin {path[i] : i \in 1..Len(path)}
                              /\ ~heap[p].isReverseEdge /\ heap[p].flow >= 1

\* The label sequences of the simple paths from v to tgt along edges of
\* positive capacity that avoid the vertices in visited.
RECURSIVE SimplePaths(_, _, _, _)
SimplePaths(h, v, tgt, visited) ==
    IF v = tgt THEN {<<v>>}
    ELSE UNION { {<<v>> \o q : q \in SimplePaths(h, w, tgt, visited \cup {w})} :
                   w \in {h[p].target : p \in {q \in DOMAIN h : /\ h[q].source = v
                                                                /\ h[q].capacity > 0}}
                         \ visited }

\* a comes before b in the lexicographic order of label sequences.
LexLess(a, b) ==
    \E k \in 1..Len(b) :
        /\ \A j \in 1..(k - 1) : j <= Len(a) /\ a[j] = b[j]
        /\ k > Len(a) \/ a[k] < b[k]

\* The labels of the vertices the path p visits from src on.
LabelsOf(h, src, p) == [i \in 1..(Len(p) + 1) |-> Visited(h, src, p)[i - 1]]

\* C15: the path the top-level findPath returns is, by the labels of its
\* vertices, the lexicographically greatest of the simple paths from the
\* source to the target along edges of positive capacity.
C15_LexGreatest ==
    [][(pc = "SEARCHING" /\ pc' \in {"SEARCHING", "aborted"}) =>
          LET L == LabelsOf(heap, source, path')
              All == SimplePaths(heap, source, target, {source})
          IN /\ L \in All
             /\ \A q \in All : q = L \/ LexLess(q, L)]_vars

\* The first search on the five-edge graph returned a path of three
\* edges, where paths of two edges existed as well.
C15_Witness ==
    /\ pc = "SEARCHING"
    /\ Len(input) = 5
    /\ Len(path) = 3
    /\ \A p \in DOMAIN heap :
          (~heap[p].isReverseEdge /\ p \notin {path[i] : i \in 1..Len(path)})
              => heap[p].flow = 0

\* The edges of the path p and their reverse partners.
Touched(h, p) ==
    {p[i] : i \in 1..Len(p)} \cup {h[p[i]].reverseEdge : i \in 1..Len(p)}

\* C16: once the residual graph is built, no step changes the edge sets of
\* the vertices, the vertex set, the set of edges, or the endpoints, the
\* reverse link or the kind of any edge; a search that finds no path
\* changes no edge at all, and an augmentation changes the capacity and
\* the flow of no edge other than those of the path and their partners.
C16_TopologyFrozen ==
    [][Built =>
          /\ edges' = edges
          /\ vertices' = vertices
          /\ source' = source
          /\ target' = target
          /\ DOMAIN heap' = DOMAIN heap
          /\ \A p \in DOMAIN heap :
                /\ heap'[p].source = heap[p].source
                /\ heap'[p].target = heap[p].target
                /\ heap'[p].reverseEdge = heap[p].reverseEdge
                /\ heap'[p].isReverseEdge = heap[p].isReverseEdge
                /\ p \notin Touched(heap, path') => heap'[p] = heap[p]
          /\ pc' = "DONE" => heap' = heap]_vars

\* An augmentation along several edges has left alone an original edge
\* that goes the opposite way of an edge of its path.
C16_Witness ==
    /\ pc = "SEARCHING"
    /\ path # <<>>
    /\ \E p \in DOMAIN heap :
          /\ ~heap[p].isReverseEdge
          /\ p \notin Touched(heap, path)
          /\ heap[p].flow = 0
          /\ heap[p].capacity > 0
          /\ \E i \in 1..Len(path) : /\ heap[path[i]].source = heap[p].target
                                     /\ heap[path[i]].target = heap[p].source

\* The input edges whose opposite direction is an input edge as well.
WithOppositeOriginal ==
    {p \in 1..Len(input) :
        /\ input[p][1] # input[p][2]
        /\ \E q \in 1..Len(input) : /\ input[q][1] = input[p][2]
                                    /\ input[q][2] = input[p][1]}

\* C17, as stated: addReverseEdges allocates no companion for an input
\* edge whose opposite direction is an input edge too.
C17_OppositeOriginalSkipped ==
    Built => \A p \in WithOppositeOriginal :
                ~\E r \in DOMAIN heap : /\ heap[r].isReverseEdge
                                        /\ heap[r].reverseEdge = p

\* C17, amended: readGraph links no edge to another, so every input edge
\* is without a partner when addReverseEdges starts, and an input edge
\* whose opposite direction is an input edge too is not skipped: it gets a
\* companion of its own, and the two opposite input edges are never each
\* other's partners.
C17_OppositeOriginalGetsCompanion ==
    /\ pc = "addReverseEdges" =>
          \A p \in DOMAIN heap : heap[p].reverseEdge = nullptr
    /\ Built =>
          /\ Len(heap) = 2 * Len(input)
          /\ \A p \in WithOppositeOriginal :
                /\ heap[p].reverseEdge > Len(input)
                /\ heap[heap[p].reverseEdge].isReverseEdge
                /\ heap[heap[p].reverseEdge].reverseEdge = p

\* The residual graph of an input with exactly the edges u->v and v->u,
\* both of positive capacity, has been built and used for an augmentation.
C17_Witness ==
    /\ pc = "DONE"
    /\ WithOppositeOriginal = {1, 2}
    /\ Len(heap) = 4
    /\ maxFlow >= 1

\* C18: whenever a top-level findPath has returned to the driver, with a
\* path of any length or with none, the inPath marker of every vertex,
\* the source included, is false.
C18_MarkersCleared ==
    pc \in {"SEARCHING", "DONE", "aborted"} => \A n \in Labels : ~inPath[n]

\* The sum of the capacities the input gives to the edges that leave the
\* source.
SourceCapacity ==
    Sum([k \in DOMAIN input |-> input[k][3]],
        {k \in DOMAIN input : input[k][1] = sourceName})

\* C19: the loop of findMaxFlow never runs more iterations that find a
\* path than the sum of the input capacities of the edges leaving the
\* source, and once the graph is read the driver eventually reaches DONE.
C19_Terminates ==
    /\ [](augmentations <= SourceCapacity)
    /\ (pc = "addReverseEdges") ~> (pc = "DONE")

\* The driver ended after as many augmentations as the edges leaving the
\* source have capacity, and more than one.
C19_Witness ==
    /\ pc = "DONE"
    /\ augmentations >= 2
    /\ augmentations = SourceCapacity

====
